---- MODULE Spec2Model ----
(***************************************************************************)
(* Model of the Czech NLP service (nlp-service/main.py, nlp_processor.py): *)
(* the text extraction of the endpoints, the preprocessing, the lexicon    *)
(* sentiment scorer, the formatting of topic results, the life cycle of    *)
(* the process-wide NLPProcessor and the asyncio event loop that runs the  *)
(* request handlers and the three tasks of a batch analysis.               *)
(*                                                                         *)
(* A text is a sequence of characters, each a string; the letters with a   *)
(* caron are written "e^", "s^", "z^".  Floats are modelled as exact       *)
(* fractions <<numerator, denominator>> with a positive denominator.       *)
(***************************************************************************)
EXTENDS Integers, Sequences, FiniteSets, TLC

VARIABLES
    init_pc,        \* position of NLPProcessor.__init__ / _init_models
    initialized,    \* self.initialized
    loaded,         \* which of the attributes sentence_model, sentiment_model, nlp, topic_model are set
    topic_model,    \* fitted state of the shared BERTopic instance (NotFitted or a fitted model)
    reqs,           \* per connection slot: the request being handled
    answered,       \* the request answered by the last step and its response, if any
    ready,          \* the event loop's FIFO queue of ready callbacks
    sub,            \* per slot: the three tasks asyncio.gather created for a batch
    outer,          \* per slot: the future returned by asyncio.gather
    sent_in,        \* input of the sentiment scorer checked in isolation
    sent_out        \* its result

vars == <<init_pc, initialized, loaded, topic_model, reqs, answered, ready, sub, outer,
          sent_in, sent_out>>

service_vars == <<init_pc, initialized, loaded, topic_model, reqs, answered, ready, sub,
                  outer>>

None == "None"

NoResponse == [status |-> 0, body |-> None, detail |-> None, called |-> {}]
NoReq == [phase |-> "free", endpoint |-> None, articles |-> <<>>, num_topics |-> None,
          query |-> None]
NoAnswer == [req |-> NoReq, response |-> NoResponse]

(***************************************************************************)
(* Strings                                                                 *)
(***************************************************************************)

\* str.lower() on the characters the model uses
LowerChar(c) ==
    CASE c = "D" -> "d"
      [] c = "K" -> "k"
      [] c = "N" -> "n"
      [] OTHER -> c

Lower(s) == [i \in 1..Len(s) |-> LowerChar(s[i])]

\* str.split(): split on runs of whitespace, no empty pieces.  A piece
\* starts at a non-space character that follows a space or starts the text.
Split(s) ==
    LET starts == {i \in 1..Len(s) : s[i] # " " /\ (i = 1 \/ s[i - 1] = " ")}
        start(k) == CHOOSE i \in starts : Cardinality({j \in starts : j < i}) = k - 1
        end(i) == CHOOSE e \in i..Len(s) :
                      /\ \A j \in i..e : s[j] # " "
                      /\ (e = Len(s) \/ s[e + 1] = " ")
    IN  [k \in 1..Cardinality(starts) |-> SubSeq(s, start(k), end(start(k)))]

RECURSIVE Join(_)
\* " ".join(parts)
Join(parts) ==
    IF parts = <<>> THEN <<>>
    ELSE IF Len(parts) = 1 THEN parts[1]
    ELSE parts[1] \o <<" ">> \o Join(Tail(parts))

\* word in text  (substring test)
Contains(word, text) ==
    \E i \in 1..(Len(text) - Len(word) + 1) :
        SubSeq(text, i, i + Len(word) - 1) = word

(***************************************************************************)
(* Exact fractions standing for Python floats                              *)
(***************************************************************************)

Frac(n, d) == <<n, d>>
FLess(a, b) == a[1] * b[2] < b[1] * a[2]
FEq(a, b) == a[1] * b[2] = b[1] * a[2]
FLeq(a, b) == a[1] * b[2] <= b[1] * a[2]
FMin(a, b) == IF FLess(b, a) THEN b ELSE a
FAbs(a) == IF a[1] < 0 THEN <<0 - a[1], a[2]>> ELSE a
FTimes(a, k) == <<a[1] * k, a[2]>>

(***************************************************************************)
(* The sentiment scorer: NLPProcessor._analyze_czech_sentiment             *)
(***************************************************************************)

positive_words == <<
    <<"d","o","b","r","ý">>,
    <<"v","ý","b","o","r","n","ý">>,
    <<"s","k","v","e^","l","ý">>,
    <<"ú","z^","a","s","n","ý">>,
    <<"p","o","z","i","t","i","v","n","í">>,
    <<"ú","s","p","e^","s^","n","ý">>,
    <<"p","r","o","s","p","e^","s^","n","ý">>,
    <<"n","a","d","e^","j","n","ý">>,
    <<"o","p","t","i","m","i","s","t","i","c","k","ý">> >>

negative_words == <<
    <<"s^","p","a","t","n","ý">>,
    <<"h","o","r","s^","í">>,
    <<"k","a","t","a","s","t","r","o","f","i","c","k","ý">>,
    <<"n","e","g","a","t","i","v","n","í">>,
    <<"p","r","o","b","l","é","m">>,
    <<"k","r","i","z","e">>,
    <<"n","e","ú","s","p","e^","c","h">>,
    <<"p","e","s","i","m","i","s","t","i","c","k","ý">> >>

\* sum(1 for word in words if word in text_lower)
CountIn(words, text_lower) ==
    Cardinality({i \in 1..Len(words) : Contains(words[i], text_lower)})

\* A faulty variant of AnalyzeCzechSentiment: the neutral band is taken as
\* polarity >= 0.01 / <= -0.01 and the confidence is not capped.
AnalyzeCzechSentimentNoCap(text) ==
    LET text_lower == Lower(text)
        positive_count == CountIn(positive_words, text_lower)
        negative_count == CountIn(negative_words, text_lower)
        total_words == Len(Split(text))
    IN  IF total_words = 0
        THEN [sentiment |-> "neutral", confidence |-> Frac(5, 10),
              polarity |-> Frac(0, 1), subjectivity |-> Frac(0, 1)]
        ELSE LET polarity == Frac(positive_count - negative_count, total_words)
                 subjectivity == Frac(positive_count + negative_count, total_words)
             IN  IF FLeq(Frac(1, 100), polarity)
                 THEN [sentiment |-> "positive",
                       confidence |-> FTimes(FAbs(polarity), 10),
                       polarity |-> polarity,
                       subjectivity |-> FMin(Frac(1, 1), subjectivity)]
                 ELSE IF FLeq(polarity, Frac(-1, 100))
                 THEN [sentiment |-> "negative",
                       confidence |-> FTimes(FAbs(polarity), 10),
                       polarity |-> polarity,
                       subjectivity |-> FMin(Frac(1, 1), subjectivity)]
                 ELSE [sentiment |-> "neutral", confidence |-> Frac(5, 10),
                       polarity |-> polarity,
                       subjectivity |-> FMin(Frac(1, 1), subjectivity)]

AnalyzeCzechSentiment(text) ==
    LET text_lower == Lower(text)
        positive_count == CountIn(positive_words, text_lower)
        negative_count == CountIn(negative_words, text_lower)
        total_words == Len(Split(text))
    IN  IF total_words = 0
        THEN [sentiment |-> "neutral", confidence |-> Frac(5, 10),
              polarity |-> Frac(0, 1), subjectivity |-> Frac(0, 1)]
        ELSE LET polarity == Frac(positive_count - negative_count, total_words)
                 subjectivity == Frac(positive_count + negative_count, total_words)
             IN  IF FLess(Frac(1, 100), polarity)
                 THEN [sentiment |-> "positive",
                       confidence |-> FMin(Frac(9, 10), FTimes(FAbs(polarity), 10)),
                       polarity |-> polarity,
                       subjectivity |-> FMin(Frac(1, 1), subjectivity)]
                 ELSE IF FLess(polarity, Frac(-1, 100))
                 THEN [sentiment |-> "negative",
                       confidence |-> FMin(Frac(9, 10), FTimes(FAbs(polarity), 10)),
                       polarity |-> polarity,
                       subjectivity |-> FMin(Frac(1, 1), subjectivity)]
                 ELSE [sentiment |-> "neutral", confidence |-> Frac(5, 10),
                       polarity |-> polarity,
                       subjectivity |-> FMin(Frac(1, 1), subjectivity)]

(***************************************************************************)
(* The preprocessor: NLPProcessor._preprocess_texts                        *)
(* The spaCy pipeline is an external component; it is modelled on the      *)
(* vocabulary of the model: tokens are split at whitespace and at          *)
(* punctuation marks, "a" and "je" are stop words, and the lemmatizer      *)
(* maps "krizi" to "krize" and "dobrá" to "dobrý".                         *)
(***************************************************************************)

Punct == {".", ",", "!"}
Digits == {"0", "1", "2", "5"}
StopWords == { <<"a">>, <<"j","e">> }

RECURSIVE TokenizeFrom(_, _, _, _)
TokenizeFrom(s, i, cur, acc) ==
    LET flush == IF cur = <<>> THEN acc ELSE Append(acc, cur)
    IN  IF i > Len(s) THEN flush
        ELSE IF s[i] = " " THEN TokenizeFrom(s, i + 1, <<>>, flush)
        ELSE IF s[i] \in Punct THEN TokenizeFrom(s, i + 1, <<>>, Append(flush, <<s[i]>>))
        ELSE TokenizeFrom(s, i + 1, Append(cur, s[i]), acc)

\* doc = self.nlp(text)
Tokenize(s) == TokenizeFrom(s, 1, <<>>, <<>>)

is_punct(tok) == Len(tok) = 1 /\ tok[1] \in Punct
is_alpha(tok) == \A i \in 1..Len(tok) : tok[i] \notin Punct \cup Digits
is_stop(tok) == Lower(tok) \in StopWords

lemma_(tok) ==
    CASE Lower(tok) = <<"k","r","i","z","i">> -> <<"k","r","i","z","e">>
      [] Lower(tok) = <<"d","o","b","r","á">> -> <<"d","o","b","r","ý">>
      [] OTHER -> tok

RECURSIVE KeptLemmas(_)
KeptLemmas(toks) ==
    IF toks = <<>> THEN <<>>
    ELSE LET t == Head(toks)
         IN  IF ~is_stop(t) /\ ~is_punct(t) /\ is_alpha(t)
             THEN <<Lower(lemma_(t))>> \o KeptLemmas(Tail(toks))
             ELSE KeptLemmas(Tail(toks))

PreprocessText(text) == Join(KeptLemmas(Tokenize(text)))

PreprocessTexts(texts) == [i \in 1..Len(texts) |-> PreprocessText(texts[i])]

(***************************************************************************)
(* The sentiment scorer in isolation                                       *)
(***************************************************************************)

\* Longest text, in tokens, enumerated for the scorer
MaxSentTokens == 3
\* Lengths of the long filler texts that bring the polarity near 0.01
FillerLens == {98, 99, 100}

SentVocab == {
    <<"d","o","b","r","ý">>,
    <<"D","o","b","r","ý">>,
    <<"n","e","d","o","b","r","ý">>,
    <<"k","r","i","z","e">>,
    <<"s^","p","a","t","n","ý">>,
    <<"d","e","n">> }

RECURSIVE TokenSeqs(_)
TokenSeqs(n) ==
    IF n = 0 THEN { <<>> }
    ELSE LET shorter == TokenSeqs(n - 1)
         IN  shorter \cup {Append(s, t) : s \in {q \in shorter : Len(q) = n - 1}, t \in SentVocab}

\* n further words "x"
Filler(n) == [i \in 1..(2 * n) |-> IF i % 2 = 1 THEN " " ELSE "x"]

SentTexts ==
    {Join(ts) : ts \in TokenSeqs(MaxSentTokens)}
    \cup {w \o Filler(n) : w \in {<<"d","o","b","r","ý">>, <<"k","r","i","z","e">>}, n \in FillerLens}
    \cup { <<" ">>, <<" ", "d","e","n", " ", " ">> }

NoResult == [sentiment |-> None]

ScoreText ==
    /\ sent_out = NoResult
    /\ sent_out' = AnalyzeCzechSentiment(sent_in)
    /\ UNCHANGED <<service_vars, sent_in>>

(***************************************************************************)
(* Topic modelling: NLPProcessor.analyze_topics                            *)
(* A fitted model is what the code reads back from BERTopic:               *)
(*   topics  per document, the topic id fit_transform assigned;            *)
(*   probs   per document, the probability of every topic (in percent);    *)
(*   info    the rows <<Topic, Count>> of get_topic_info();                *)
(*   words   per topic id, get_topic(): a list of <<word, weight>>.        *)
(***************************************************************************)

Min(a, b) == IF a < b THEN a ELSE b
Max(a, b) == IF a < b THEN b ELSE a

\* DataFrame.head(n): the first n rows; for negative n all but the last -n rows
DfHead(rows, n) ==
    IF n >= 0 THEN SubSeq(rows, 1, Min(n, Len(rows)))
    ELSE SubSeq(rows, 1, Max(0, Len(rows) + n))

\* list[:n]
SliceTo(s, n) ==
    IF n >= 0 THEN SubSeq(s, 1, Min(n, Len(s)))
    ELSE SubSeq(s, 1, Max(0, Len(s) + n))

\* topic_words[:10]
TopWords == 10

\* np.max(prob) of a non-empty vector
NpMax(prob) == CHOOSE m \in {prob[i] : i \in 1..Len(prob)} : \A i \in 1..Len(prob) : prob[i] <= m

\* lines 80-88
FormatTopics(m, num_topics) ==
    LET rows == DfHead(m.info, num_topics)
    IN  [r \in 1..Len(rows) |->
            LET topic_words == m.words[rows[r].Topic]
                top == SliceTo(topic_words, TopWords)
            IN  [topic_id |-> rows[r].Topic,
                 count |-> rows[r].Count,
                 words |-> [j \in 1..Len(top) |-> top[j][1]],
                 weights |-> [j \in 1..Len(top) |-> top[j][2]]]]

\* A faulty variant of FormatArticleTopics: the index is counted from 1
FormatArticleTopicsOneBased(m, num_topics) ==
    [i \in 1..Min(Len(m.topics), Len(m.probs)) |->
        [article_index |-> i,
         primary_topic |-> m.topics[i],
         topic_probabilities |-> SliceTo(m.probs[i], num_topics),
         confidence |-> NpMax(m.probs[i])]]

\* lines 91-98; zip() stops at the shorter of topics and probs
FormatArticleTopics(m, num_topics) ==
    [i \in 1..Min(Len(m.topics), Len(m.probs)) |->
        [article_index |-> i - 1,
         primary_topic |-> m.topics[i],
         topic_probabilities |-> SliceTo(m.probs[i], num_topics),
         confidence |-> NpMax(m.probs[i])]]

\* np.max raises ValueError on an empty probability vector
MaxRaises(m) == \E i \in 1..Min(Len(m.topics), Len(m.probs)) : m.probs[i] = <<>>

\* A raised exception; `called` names the models the call had reached
Raise(msg) == [ok |-> FALSE, exc |-> msg, called |-> {}]
RaiseIn(msg, called) == [ok |-> FALSE, exc |-> msg, called |-> called]

\* lines 76-100, after the fit
TopicsOfFitted(m, num_topics) ==
    IF MaxRaises(m)
    THEN RaiseIn("zero-size array to reduction operation maximum", {"nlp", "topic_model"})
    ELSE [ok |-> TRUE, called |-> {"nlp", "topic_model"},
          topics |-> FormatTopics(m, num_topics),
          article_topics |-> FormatArticleTopics(m, num_topics)]

(***************************************************************************)
(* The external models.  BERTopic's fit is modelled as clustering equal    *)
(* texts: every distinct non-empty text is a topic, numbered in order of   *)
(* first appearance, an empty text is an outlier (topic -1), a document    *)
(* has probability 100 for its own topic, and a topic's words are the      *)
(* words of its text.  The sentence model is modelled by a two-component   *)
(* embedding of a text.                                                    *)
(***************************************************************************)

RECURSIVE Distinct(_)
Distinct(texts) ==
    IF texts = <<>> THEN <<>>
    ELSE LET front == Distinct(SubSeq(texts, 1, Len(texts) - 1))
             last == texts[Len(texts)]
         IN  IF last = <<>> \/ \E j \in 1..Len(front) : front[j] = last
             THEN front ELSE Append(front, last)

IndexOf(s, x) == CHOOSE j \in 1..Len(s) : s[j] = x

NotFitted == [topics |-> <<>>, probs |-> <<>>, info |-> <<>>, words |-> <<>>, fitted |-> FALSE]

\* self.topic_model.fit_transform(processed_texts)
Fit(texts) ==
    LET ds == Distinct(texts)
        nt == Len(ds)
        topicOf(i) == IF texts[i] = <<>> THEN -1 ELSE IndexOf(ds, texts[i]) - 1
        countOf(t) == Cardinality({i \in 1..Len(texts) : topicOf(i) = t})
        outliers == countOf(-1) > 0
        ids == IF outliers THEN (-1)..(nt - 1) ELSE 0..(nt - 1)
        first == IF outliers THEN -1 ELSE 0
    IN  [topics |-> [i \in 1..Len(texts) |-> topicOf(i)],
         probs |-> [i \in 1..Len(texts) |->
                        [t \in 1..nt |-> IF t - 1 = topicOf(i) THEN 100 ELSE 0]],
         info |-> [r \in 1..Cardinality(ids) |->
                        [Topic |-> first + r - 1, Count |-> countOf(first + r - 1)]],
         words |-> [t \in ids |->
                        IF t = -1 THEN <<>>
                        ELSE LET ws == Split(ds[t + 1])
                             IN  [j \in 1..Len(ws) |-> <<ws[j], Len(ws) + 1 - j>>]],
         fitted |-> TRUE]

\* self.sentence_model.encode(...)
Encode(text) == <<Len(Split(text)), Len(text)>>

\* cosine_similarity, in percent
Cosine(a, b) == IF a = b THEN 100 ELSE IF a[1] = b[1] THEN 50 ELSE 0

(***************************************************************************)
(* Text extraction of the endpoints (main.py)                              *)
(***************************************************************************)

\* "if article.description:" - None and the empty string are both skipped
Truthy(field) == field # None /\ field # <<>>

\* lines 65-70, 115-120, 136-141: title, description, content
TextWithContent(article) ==
    Join(<<article.title>>
         \o (IF Truthy(article.description) THEN <<article.description>> ELSE <<>>)
         \o (IF Truthy(article.content) THEN <<article.content>> ELSE <<>>))

\* lines 91-94: title, description
TextWithoutContent(article) ==
    Join(<<article.title>>
         \o (IF Truthy(article.description) THEN <<article.description>> ELSE <<>>))

TopicsTexts(articles) == [i \in 1..Len(articles) |-> TextWithContent(articles[i])]
SemanticTexts(articles) == [i \in 1..Len(articles) |-> TextWithoutContent(articles[i])]
SentimentTexts(articles) == [i \in 1..Len(articles) |-> TextWithContent(articles[i])]
\* A faulty variant of BatchTexts: the batch builds its texts without the content
BatchTextsNoContent(articles) == [i \in 1..Len(articles) |-> TextWithoutContent(articles[i])]
BatchTexts(articles) == [i \in 1..Len(articles) |-> TextWithContent(articles[i])]

(***************************************************************************)
(* The analyses of NLPProcessor.  Each yields a result record with ok      *)
(* TRUE, or [ok |-> FALSE, exc |-> message] when it raises.  `fail` says   *)
(* whether an external model raises during the call; `flag` is             *)
(* self.initialized.                                                       *)
(***************************************************************************)

NotInitializedMsg == "NLP models not initialized"

\* A faulty variant of AnalyzeSentiment: the scorer is given the raw text
AnalyzeSentimentRaw(flag, texts, fail) ==
    IF ~flag THEN Raise(NotInitializedMsg)
    ELSE IF fail THEN RaiseIn("sentiment: model failure", {"nlp"})
    ELSE [ok |-> TRUE, called |-> {},
          sentiments |-> [i \in 1..Len(texts) |->
              LET r == AnalyzeCzechSentiment(texts[i])
              IN  [article_index |-> i - 1, sentiment |-> r.sentiment,
                   confidence |-> r.confidence, polarity |-> r.polarity,
                   subjectivity |-> r.subjectivity]]]

\* analyze_sentiment, lines 146-174
AnalyzeSentiment(flag, texts, fail) ==
    IF ~flag THEN Raise(NotInitializedMsg)
    ELSE IF fail THEN RaiseIn("sentiment: model failure", {"nlp"})
    ELSE LET processed_texts == PreprocessTexts(texts)
         IN  [ok |-> TRUE, called |-> {"nlp"},
              sentiments |-> [i \in 1..Len(processed_texts) |->
                  LET r == AnalyzeCzechSentiment(processed_texts[i])
                  IN  [article_index |-> i - 1, sentiment |-> r.sentiment,
                       confidence |-> r.confidence, polarity |-> r.polarity,
                       subjectivity |-> r.subjectivity]]]

\* analyze_semantics, lines 106-144
AnalyzeSemantics(flag, texts, query, fail) ==
    IF ~flag THEN Raise(NotInitializedMsg)
    ELSE IF fail THEN RaiseIn("semantics: model failure", {"nlp"})
    ELSE LET processed_texts == PreprocessTexts(texts)
         IN  [ok |-> TRUE, called |-> {"nlp", "sentence_model"},
              embeddings |-> [i \in 1..Len(processed_texts) |->
                  [article_index |-> i - 1,
                   embedding |-> Encode(processed_texts[i]),
                   text_length |-> Len(processed_texts[i])]],
              similarities |->
                  IF Truthy(query)
                  THEN [i \in 1..Len(processed_texts) |->
                            Cosine(Encode(query), Encode(processed_texts[i]))]
                  ELSE None]

\* A faulty variant of TopicModelAfter: the fit is made on a private copy and the
\* shared model stays as it was.
TopicModelAfterOnCopy(flag, model, texts, fail) == model

\* The state of the shared topic model after analyze_topics: the fit
\* replaces it unless the call raised before reaching fit_transform.
TopicModelAfter(flag, model, texts, fail) ==
    IF ~flag \/ fail THEN model ELSE Fit(PreprocessTexts(texts))

\* A faulty variant of AnalyzeTopics: the topic information is read from the
\* model as it was before this call's fit.
AnalyzeTopicsStale(flag, model, texts, num_topics, fail) ==
    IF ~flag THEN Raise(NotInitializedMsg)
    ELSE IF fail THEN RaiseIn("topics: model failure", {"nlp"})
    ELSE LET own == Fit(PreprocessTexts(texts))
             seen == [own EXCEPT !.info = IF model.fitted THEN model.info ELSE own.info,
                                 !.words = IF model.fitted THEN model.words @@ own.words
                                           ELSE own.words]
         IN  TopicsOfFitted(seen, num_topics)

\* analyze_topics, lines 60-104: fit_transform, then get_topic_info and
\* get_topic on the same model with no await in between
AnalyzeTopics(flag, model, texts, num_topics, fail) ==
    IF ~flag THEN Raise(NotInitializedMsg)
    ELSE IF fail THEN RaiseIn("topics: model failure", {"nlp"})
    ELSE TopicsOfFitted(TopicModelAfter(flag, model, texts, fail), num_topics)

(***************************************************************************)
(* Construction: NLPProcessor.__init__ and _init_models.  Every load is an *)
(* external call that returns or raises; a raise is logged and re-raised   *)
(* out of the constructor (state "failed").                                *)
(***************************************************************************)

AllModels == {"sentence_model", "sentiment_model", "nlp", "topic_model"}

\* line 27
LoadSentenceModel ==
    /\ init_pc = "sentence_model"
    /\ \E ok \in BOOLEAN :
        IF ok THEN /\ loaded' = loaded \cup {"sentence_model"}
                   /\ init_pc' = "sentiment_model"
        ELSE /\ init_pc' = "failed"
             /\ UNCHANGED loaded
    /\ UNCHANGED <<initialized, topic_model, reqs, ready, sub, outer, sent_in, sent_out>>
    /\ answered' = NoAnswer

\* lines 30-34
LoadSentimentModel ==
    /\ init_pc = "sentiment_model"
    /\ \E ok \in BOOLEAN :
        IF ok THEN /\ loaded' = loaded \cup {"sentiment_model"}
                   /\ init_pc' = "nlp"
        ELSE /\ init_pc' = "failed"
             /\ UNCHANGED loaded
    /\ UNCHANGED <<initialized, topic_model, reqs, ready, sub, outer, sent_in, sent_out>>
    /\ answered' = NoAnswer

\* lines 37-39: spacy.load returns, raises OSError (the model is then
\* downloaded) or raises something else
LoadSpacy ==
    /\ init_pc = "nlp"
    /\ \E outcome \in {"ok", "OSError", "error"} :
        CASE outcome = "ok" -> /\ loaded' = loaded \cup {"nlp"}
                               /\ init_pc' = "topic_model"
          [] outcome = "OSError" -> /\ init_pc' = "nlp_download"
                                    /\ UNCHANGED loaded
          [] OTHER -> /\ init_pc' = "failed"
                      /\ UNCHANGED loaded
    /\ UNCHANGED <<initialized, topic_model, reqs, ready, sub, outer, sent_in, sent_out>>
    /\ answered' = NoAnswer

\* lines 40-43: download, then the second spacy.load
LoadSpacyAfterDownload ==
    /\ init_pc = "nlp_download"
    /\ \E ok \in BOOLEAN :
        IF ok THEN /\ loaded' = loaded \cup {"nlp"}
                   /\ init_pc' = "topic_model"
        ELSE /\ init_pc' = "failed"
             /\ UNCHANGED loaded
    /\ UNCHANGED <<initialized, topic_model, reqs, ready, sub, outer, sent_in, sent_out>>
    /\ answered' = NoAnswer

\* A faulty variant of CreateTopicModel: the flag is set before the topic model
\* is created, so a failure leaves it set.
CreateTopicModelFlagFirst ==
    /\ init_pc = "topic_model"
    /\ initialized' = TRUE
    /\ \E ok \in BOOLEAN :
        IF ok THEN /\ loaded' = loaded \cup {"topic_model"}
                   /\ init_pc' = "ready"
        ELSE /\ init_pc' = "failed"
             /\ UNCHANGED loaded
    /\ UNCHANGED <<topic_model, reqs, ready, sub, outer, sent_in, sent_out>>
    /\ answered' = NoAnswer

\* lines 46-54: BERTopic(...), then self.initialized = True
CreateTopicModel ==
    /\ init_pc = "topic_model"
    /\ \E ok \in BOOLEAN :
        IF ok THEN /\ loaded' = loaded \cup {"topic_model"}
                   /\ initialized' = TRUE
                   /\ init_pc' = "ready"
        ELSE /\ init_pc' = "failed"
             /\ UNCHANGED <<loaded, initialized>>
    /\ UNCHANGED <<topic_model, reqs, ready, sub, outer, sent_in, sent_out>>
    /\ answered' = NoAnswer

(***************************************************************************)
(* Requests                                                                *)
(***************************************************************************)

\* Requests handled at the same time
MaxInFlight == 2
\* Longest list of articles in a request when requests are handled one at a time
MaxDocs == 2
\* Longest list of articles in a request when requests overlap
MaxOverlapDocs == 1

Slots == 1..MaxInFlight

dobry_den == <<"D","o","b","r","ý"," ","d","e","n">>
krize_a == <<"k","r","i","z","i"," ","a"," ","5",".">>
nedobry == <<"n","e","d","o","b","r","ý">>

Articles == {
    [id |-> 1, title |-> dobry_den, description |-> None, content |-> krize_a],
    [id |-> 2, title |-> nedobry, description |-> krize_a, content |-> <<>>] }

RECURSIVE ListsUpTo(_)
ListsUpTo(n) ==
    IF n = 0 THEN { <<>> }
    ELSE LET shorter == ListsUpTo(n - 1)
         IN  shorter \cup {Append(l, a) : l \in {q \in shorter : Len(q) = n - 1}, a \in Articles}

ArticleLists == ListsUpTo(MaxDocs)
OverlapLists == ListsUpTo(MaxOverlapDocs)

\* num_topics of TopicModelingRequest (line 34: int, default 10, not validated)
NumTopicsDefault == 10
NumTopicsValues == {-1, 1, NumTopicsDefault}

Queries == {None, <<"d","e","n">>}

NoOuter == [state |-> "none", nfinished |-> 0, exc |-> None]

\* The endpoint's "except Exception as e: raise HTTPException(500, str(e))"
\* and its return of the response model
Respond(res) ==
    IF res.ok THEN [status |-> 200, body |-> res, detail |-> None, called |-> res.called]
    ELSE [status |-> 500, body |-> None, detail |-> res.exc, called |-> res.called]

Handler(s) == [kind |-> "handler", slot |-> s, i |-> 0]
Task(s, i) == [kind |-> "task", slot |-> s, i |-> i]
DoneCb(s, i) == [kind |-> "done_cb", slot |-> s, i |-> i]
Wakeup(s) == [kind |-> "wakeup", slot |-> s, i |-> 0]

NextReady(cb) == ready # <<>> /\ Head(ready) = cb

\* A request reaches the application: its handler is scheduled.  The
\* processor exists once its constructor has returned or raised.
Arrive(s, lists) ==
    /\ init_pc \in {"ready", "failed"}
    /\ reqs[s].phase = "free"
    /\ \E ep \in {"topics", "semantic", "sentiment", "batch"}, arts \in lists,
          k \in NumTopicsValues, q \in Queries :
        /\ ep # "topics" => k = NumTopicsDefault
        /\ ep # "semantic" => q = None
        /\ reqs' = [reqs EXCEPT ![s] =
                [phase |-> "queued", endpoint |-> ep, articles |-> arts,
                 num_topics |-> k, query |-> q]]
    /\ ready' = Append(ready, Handler(s))
    /\ UNCHANGED <<init_pc, initialized, loaded, topic_model, sub, outer, sent_in, sent_out>>
    /\ answered' = NoAnswer

\* main.py analyze_topics, lines 58-82
HandleTopics(s) ==
    /\ NextReady(Handler(s))
    /\ reqs[s].endpoint = "topics"
    /\ \E fail \in BOOLEAN :
        LET texts == TopicsTexts(reqs[s].articles)
        IN  /\ answered' = [req |-> reqs[s],
                             response |-> Respond(AnalyzeTopics(initialized, topic_model,
                                                      texts, reqs[s].num_topics, fail))]
            /\ topic_model' = TopicModelAfter(initialized, topic_model, texts, fail)
    /\ reqs' = [reqs EXCEPT ![s] = NoReq]
    /\ ready' = Tail(ready)
    /\ UNCHANGED <<init_pc, initialized, loaded, sub, outer, sent_in, sent_out>>

\* main.py analyze_semantics, lines 84-106
HandleSemantic(s) ==
    /\ NextReady(Handler(s))
    /\ reqs[s].endpoint = "semantic"
    /\ \E fail \in BOOLEAN :
        answered' = [req |-> reqs[s],
                     response |-> Respond(AnalyzeSemantics(initialized,
                                      SemanticTexts(reqs[s].articles), reqs[s].query, fail))]
    /\ reqs' = [reqs EXCEPT ![s] = NoReq]
    /\ ready' = Tail(ready)
    /\ UNCHANGED <<init_pc, initialized, loaded, topic_model, sub, outer, sent_in, sent_out>>

\* main.py analyze_sentiment, lines 108-127
HandleSentiment(s) ==
    /\ NextReady(Handler(s))
    /\ reqs[s].endpoint = "sentiment"
    /\ \E fail \in BOOLEAN :
        answered' = [req |-> reqs[s],
                     response |-> Respond(AnalyzeSentiment(initialized,
                                      SentimentTexts(reqs[s].articles), fail))]
    /\ reqs' = [reqs EXCEPT ![s] = NoReq]
    /\ ready' = Tail(ready)
    /\ UNCHANGED <<init_pc, initialized, loaded, topic_model, sub, outer, sent_in, sent_out>>

NewTask(name, texts) == [name |-> name, texts |-> texts, state |-> "pending", result |-> None]

\* main.py batch_analysis, lines 129-144, and NLPProcessor.batch_analysis up
\* to "await asyncio.gather(*tasks)", lines 176-189: the readiness check,
\* then gather wraps the three coroutines in tasks, in this order, and the
\* handler is suspended on the future gather returned.
HandleBatch(s) ==
    /\ NextReady(Handler(s))
    /\ reqs[s].endpoint = "batch"
    /\ LET texts == BatchTexts(reqs[s].articles)
       IN  IF ~initialized
           THEN /\ answered' = [req |-> reqs[s],
                                 response |-> Respond(Raise(NotInitializedMsg))]
                /\ reqs' = [reqs EXCEPT ![s] = NoReq]
                /\ ready' = Tail(ready)
                /\ UNCHANGED <<sub, outer>>
           ELSE /\ answered' = NoAnswer
                /\ reqs' = [reqs EXCEPT ![s].phase = "awaiting"]
                /\ sub' = [sub EXCEPT ![s] = <<NewTask("topics", texts),
                                               NewTask("semantics", texts),
                                               NewTask("sentiment", texts)>>]
                /\ outer' = [outer EXCEPT ![s] = [state |-> "pending", nfinished |-> 0,
                                                  exc |-> None]]
                /\ ready' = Tail(ready) \o <<Task(s, 1), Task(s, 2), Task(s, 3)>>
    /\ UNCHANGED <<init_pc, initialized, loaded, topic_model, sent_in, sent_out>>

Finished(task, res) ==
    [task EXCEPT !.state = IF res.ok THEN "done" ELSE "failed", !.result = res]

\* The task of self.analyze_topics(texts, 10), line 184
RunTopicsTask(s) ==
    /\ NextReady(Task(s, 1))
    /\ \E fail \in BOOLEAN :
        /\ sub' = [sub EXCEPT ![s][1] =
                Finished(@, AnalyzeTopics(initialized, topic_model, sub[s][1].texts,
                                          NumTopicsDefault, fail))]
        /\ topic_model' = TopicModelAfter(initialized, topic_model, sub[s][1].texts, fail)
    /\ ready' = Append(Tail(ready), DoneCb(s, 1))
    /\ UNCHANGED <<init_pc, initialized, loaded, reqs, outer, sent_in, sent_out>>
    /\ answered' = NoAnswer

\* The task of self.analyze_semantics(texts), line 185
RunSemanticsTask(s) ==
    /\ NextReady(Task(s, 2))
    /\ \E fail \in BOOLEAN :
        sub' = [sub EXCEPT ![s][2] =
                Finished(@, AnalyzeSemantics(initialized, sub[s][2].texts, None, fail))]
    /\ ready' = Append(Tail(ready), DoneCb(s, 2))
    /\ UNCHANGED <<init_pc, initialized, loaded, topic_model, reqs, outer, sent_in, sent_out>>
    /\ answered' = NoAnswer

\* The task of self.analyze_sentiment(texts), line 186
RunSentimentTask(s) ==
    /\ NextReady(Task(s, 3))
    /\ \E fail \in BOOLEAN :
        sub' = [sub EXCEPT ![s][3] =
                Finished(@, AnalyzeSentiment(initialized, sub[s][3].texts, fail))]
    /\ ready' = Append(Tail(ready), DoneCb(s, 3))
    /\ UNCHANGED <<init_pc, initialized, loaded, topic_model, reqs, outer, sent_in, sent_out>>
    /\ answered' = NoAnswer

\* asyncio.gather's callback on a finished task (return_exceptions=False):
\* it counts the task; a finished outer future is left alone; else the
\* task's exception is set on the outer future, and the last of the three
\* results completes it.  Completing the outer future schedules the
\* suspended handler.
GatherDone(s, i) ==
    /\ NextReady(DoneCb(s, i))
    /\ IF outer[s].state # "pending"
       THEN /\ outer' = [outer EXCEPT ![s].nfinished = @ + 1]
            /\ ready' = Tail(ready)
       ELSE IF sub[s][i].state = "failed"
       THEN /\ outer' = [outer EXCEPT ![s].state = "exception",
                                      ![s].nfinished = @ + 1,
                                      ![s].exc = sub[s][i].result]
            /\ ready' = Append(Tail(ready), Wakeup(s))
       ELSE IF outer[s].nfinished + 1 = Len(sub[s])
       THEN /\ outer' = [outer EXCEPT ![s].state = "result",
                                      ![s].nfinished = @ + 1]
            /\ ready' = Append(Tail(ready), Wakeup(s))
       ELSE /\ outer' = [outer EXCEPT ![s].nfinished = @ + 1]
            /\ ready' = Tail(ready)
    /\ UNCHANGED <<init_pc, initialized, loaded, topic_model, reqs, sub, sent_in, sent_out>>
    /\ answered' = NoAnswer

\* A faulty variant of BatchResult: a failed analysis is left out of the merged
\* object instead of failing the batch.
BatchResultPartial(fut, tasks) ==
    [ok |-> TRUE,
     called |-> UNION {tasks[i].result.called : i \in 1..Len(tasks)},
     topics |-> IF tasks[1].state = "done" THEN tasks[1].result.topics ELSE None,
     article_topics |-> IF tasks[1].state = "done" THEN tasks[1].result.article_topics
                        ELSE None,
     embeddings |-> IF tasks[2].state = "done" THEN tasks[2].result.embeddings ELSE None,
     sentiments |-> IF tasks[3].state = "done" THEN tasks[3].result.sentiments ELSE None]

\* A faulty variant of BatchResult: the failure raised is that of the last failed
\* analysis, not of the first.
BatchResultLastFailure(fut, tasks) ==
    IF fut.state = "exception"
    THEN LET last == CHOOSE i \in 1..Len(tasks) :
                         /\ tasks[i].state = "failed"
                         /\ \A j \in 1..Len(tasks) : tasks[j].state = "failed" => j <= i
         IN  RaiseIn(tasks[last].result.exc,
                     UNION {tasks[i].result.called : i \in 1..Len(tasks)})
    ELSE [ok |-> TRUE,
          called |-> UNION {tasks[i].result.called : i \in 1..Len(tasks)},
          topics |-> tasks[1].result.topics,
          article_topics |-> tasks[1].result.article_topics,
          embeddings |-> tasks[2].result.embeddings,
          sentiments |-> tasks[3].result.sentiments]

\* NLPProcessor.batch_analysis after the await, lines 189-200: the
\* exception of the outer future is re-raised, else the results are merged
BatchResult(fut, tasks) ==
    IF fut.state = "exception"
    THEN RaiseIn(fut.exc.exc, UNION {tasks[i].result.called : i \in 1..Len(tasks)})
    ELSE [ok |-> TRUE,
          called |-> UNION {tasks[i].result.called : i \in 1..Len(tasks)},
          topics |-> tasks[1].result.topics,
          article_topics |-> tasks[1].result.article_topics,
          embeddings |-> tasks[2].result.embeddings,
          sentiments |-> tasks[3].result.sentiments]

\* The handler resumes with the outcome of gather and answers, main.py
\* lines 144-148.
ResumeBatch(s) ==
    /\ NextReady(Wakeup(s))
    /\ answered' = [req |-> reqs[s], response |-> Respond(BatchResult(outer[s], sub[s]))]
    /\ reqs' = [reqs EXCEPT ![s] = NoReq]
    /\ sub' = [sub EXCEPT ![s] = <<>>]
    /\ outer' = [outer EXCEPT ![s] = NoOuter]
    /\ ready' = Tail(ready)
    /\ UNCHANGED <<init_pc, initialized, loaded, topic_model, sent_in, sent_out>>

(***************************************************************************)
(* Specifications                                                          *)
(***************************************************************************)

ServiceInit ==
    /\ init_pc = "sentence_model"
    /\ initialized = FALSE
    /\ loaded = {}
    /\ topic_model = NotFitted
    /\ reqs = [s \in Slots |-> NoReq]
    /\ answered = NoAnswer
    /\ ready = <<>>
    /\ sub = [s \in Slots |-> <<>>]
    /\ outer = [s \in Slots |-> NoOuter]

Init ==
    /\ ServiceInit
    /\ sent_in = <<>>
    /\ sent_out = NoResult

Next ==
    \/ LoadSentenceModel
    \/ LoadSentimentModel
    \/ LoadSpacy
    \/ LoadSpacyAfterDownload
    \/ CreateTopicModel
    \/ \E s \in Slots : Arrive(s, OverlapLists)
    \/ \E s \in Slots : HandleTopics(s)
    \/ \E s \in Slots : HandleSemantic(s)
    \/ \E s \in Slots : HandleSentiment(s)
    \/ \E s \in Slots : HandleBatch(s)
    \/ \E s \in Slots : RunTopicsTask(s)
    \/ \E s \in Slots : RunSemanticsTask(s)
    \/ \E s \in Slots : RunSentimentTask(s)
    \/ \E s \in Slots, i \in 1..3 : GatherDone(s, i)
    \/ \E s \in Slots : ResumeBatch(s)

Spec == Init /\ [][Next]_vars

\* One request at a time, over every list of up to MaxDocs articles
NextSequential ==
    \/ LoadSentenceModel
    \/ LoadSentimentModel
    \/ LoadSpacy
    \/ LoadSpacyAfterDownload
    \/ CreateTopicModel
    \/ Arrive(1, ArticleLists)
    \/ HandleTopics(1)
    \/ HandleSemantic(1)
    \/ HandleSentiment(1)
    \/ HandleBatch(1)
    \/ RunTopicsTask(1)
    \/ RunSemanticsTask(1)
    \/ RunSentimentTask(1)
    \/ \E i \in 1..3 : GatherDone(1, i)
    \/ ResumeBatch(1)

SpecSequential == Init /\ [][NextSequential]_vars

InitSentiment ==
    /\ ServiceInit
    /\ sent_in \in SentTexts
    /\ sent_out = NoResult

NextSentiment == ScoreText

SpecSentiment == InitSentiment /\ [][NextSentiment]_vars

(***************************************************************************)
(* Properties                                                              *)
(***************************************************************************)

Answered(ep) == answered.req.endpoint = ep
Ok == answered.response.status = 200
Body == answered.response.body
\* The step that resumes the batch handler of slot s
Resuming(s) == NextReady(Wakeup(s)) /\ ready' = Tail(ready)
SomeFailed(tasks) == \E i \in 1..Len(tasks) : tasks[i].state = "failed"
FirstFailed(tasks) ==
    CHOOSE i \in 1..Len(tasks) :
        /\ tasks[i].state = "failed"
        /\ \A j \in 1..Len(tasks) : tasks[j].state = "failed" => i <= j

\* C1: a batch is all-or-nothing.  When the batch handler resumes, a failed
\* analysis makes the answer a 500 without a body, and a 200 answer carries
\* the four fields taken from three analyses that all succeeded; a batch
\* answer is never anything else.
BatchAllOrNothing ==
    /\ [](Answered("batch") =>
            \/ /\ answered.response.status = 500
               /\ Body = None
               /\ answered.response.detail # None
            \/ /\ Ok
               /\ DOMAIN Body = {"ok", "called", "topics", "article_topics",
                                 "embeddings", "sentiments"})
    /\ [][\A s \in Slots : Resuming(s) =>
            /\ answered'.req = reqs[s]
            /\ SomeFailed(sub[s]) => answered'.response.status = 500
            /\ answered'.response.status = 200 =>
                /\ \A i \in 1..3 : sub[s][i].state = "done"
                /\ answered'.response.body.topics = sub[s][1].result.topics
                /\ answered'.response.body.article_topics = sub[s][1].result.article_topics
                /\ answered'.response.body.embeddings = sub[s][2].result.embeddings
                /\ answered'.response.body.sentiments = sub[s][3].result.sentiments]_vars

\* C1 witness: a batch answered 500 although its semantic analysis had run
\* through the embedding model
BatchFailedPartly ==
    Answered("batch") /\ answered.response.status = 500
    /\ "sentence_model" \in answered.response.called

\* C2: the flag is set only with all four models loaded and the
\* constructor returned, never after a failed load, never reset; the loads
\* happen in order; an analysis invoked while the flag is false is answered
\* with the not-initialized error without any model having been called, and
\* changes neither the topic model nor creates tasks.
InitLifecycle ==
    /\ [](init_pc \in {"sentence_model", "sentiment_model", "nlp", "nlp_download",
                       "topic_model", "ready", "failed"})
    /\ [](initialized <=> init_pc = "ready")
    /\ [](initialized => loaded = AllModels)
    /\ []("topic_model" \in loaded => "nlp" \in loaded)
    /\ []("nlp" \in loaded => "sentiment_model" \in loaded)
    /\ []("sentiment_model" \in loaded => "sentence_model" \in loaded)
    /\ [][initialized => initialized']_vars
    /\ [][(init_pc \in {"ready", "failed"}) => (init_pc' = init_pc)]_vars
    /\ []((answered # NoAnswer /\ ~initialized) =>
            /\ answered.response.status = 500
            /\ answered.response.detail = NotInitializedMsg
            /\ answered.response.called = {})
    /\ [][~initialized' => (topic_model' = topic_model /\ sub' = sub)]_vars

\* C2 witness: the load failed and a request was answered not-initialized
CalledBeforeReady ==
    init_pc = "failed" /\ answered # NoAnswer
    /\ answered.response.detail = NotInitializedMsg

\* C3 as stated: once Ready no request changes the state of the models
ModelsReadOnly ==
    [][initialized => (topic_model' = topic_model /\ loaded' = loaded)]_vars

TopicsStep(s) ==
    /\ ready # <<>>
    /\ \/ Head(ready) = Handler(s) /\ reqs[s].endpoint = "topics"
       \/ Head(ready) = Task(s, 1)
OwnTopicsTexts(s) ==
    IF reqs[s].endpoint = "topics" THEN TopicsTexts(reqs[s].articles)
    ELSE BatchTexts(reqs[s].articles)
TopicsStepSucceeded(s) ==
    IF reqs[s].endpoint = "topics" THEN answered'.response.status = 200
    ELSE sub'[s][1].state = "done"

\* C3 amended: once Ready the set of loaded models never changes, but the
\* shared topic model does: every topic analysis that succeeds (a /topics
\* handler or the topics task of a batch) leaves it fitted on the texts of
\* its own request, and no other step changes it.
OnlyTopicModelRefitted ==
    [][initialized =>
        /\ loaded' = loaded
        /\ topic_model' # topic_model => \E s \in Slots : TopicsStep(s)
        /\ \A s \in Slots : (TopicsStep(s) /\ TopicsStepSucceeded(s)) =>
                topic_model' = Fit(PreprocessTexts(OwnTopicsTexts(s)))]_vars

\* C3 witness: a /topics request has been answered and the shared model is
\* fitted on its texts
SharedModelRefitted ==
    /\ initialized /\ Answered("topics") /\ Ok
    /\ answered.req.articles # <<>>
    /\ topic_model = Fit(PreprocessTexts(TopicsTexts(answered.req.articles)))

\* C4 as stated: once an analysis of a batch has failed, no sibling that
\* was still pending runs to completion
SiblingsAborted ==
    [][\A s \in Slots :
        (sub[s] # <<>> /\ SomeFailed(sub[s]) /\ sub'[s] # <<>>) =>
            \A j \in 1..3 : sub[s][j].state = "pending" => sub'[s][j].state # "done"]_vars

\* C4 amended: a failure does not abort the siblings.  When the batch
\* handler resumes, each of the three analyses has run to completion or to
\* its own failure, none is pending or cancelled, and if any failed the
\* batch fails with the error of the first failed one in the order
\* topics, semantics, sentiment; the other results are discarded.
FirstFailureAfterAllRan ==
    [][\A s \in Slots : Resuming(s) =>
        /\ \A i \in 1..3 : sub[s][i].state \in {"done", "failed"}
        /\ SomeFailed(sub[s]) =>
            /\ answered'.response.status = 500
            /\ answered'.response.body = None
            /\ answered'.response.detail = sub[s][FirstFailed(sub[s])].result.exc]_vars

\* C4 witness: the topics task of a batch has failed and its semantics
\* task has then run to completion
SiblingRanAfterFailure ==
    \E s \in Slots : sub[s] # <<>> /\ sub[s][1].state = "failed" /\ sub[s][2].state = "done"

\* What a topic analysis of `texts` returns when the model it reads is the
\* one fitted on these texts
OwnTopics(texts, num_topics) == TopicsOfFitted(Fit(PreprocessTexts(texts)), num_topics)

\* C10: the topics and assignments a topic analysis returns are those of
\* the model fitted on its own documents, whatever other requests do to the
\* shared model before, between and after: this holds for an answered
\* /topics request, for the finished topics task of a batch and for the
\* answer of the batch.
TopicsIsolated ==
    /\ (Answered("topics") /\ Ok) =>
        LET own == OwnTopics(TopicsTexts(answered.req.articles), answered.req.num_topics)
        IN  Body.topics = own.topics /\ Body.article_topics = own.article_topics
    /\ (Answered("batch") /\ Ok) =>
        LET own == OwnTopics(BatchTexts(answered.req.articles), NumTopicsDefault)
        IN  Body.topics = own.topics /\ Body.article_topics = own.article_topics
    /\ \A s \in Slots : (sub[s] # <<>> /\ sub[s][1].state = "done") =>
        LET own == OwnTopics(BatchTexts(reqs[s].articles), NumTopicsDefault)
        IN  /\ sub[s][1].result.topics = own.topics
            /\ sub[s][1].result.article_topics = own.article_topics

\* C10 witness: a batch is answered with its topics after another request
\* has refitted the shared model on other documents
BatchAnsweredAfterRefit ==
    /\ Answered("batch") /\ Ok
    /\ topic_model # Fit(PreprocessTexts(BatchTexts(answered.req.articles)))

TopicsAligned(article_topics, texts) ==
    /\ Len(article_topics) = Len(texts)
    /\ \A i \in 1..Len(texts) :
        /\ article_topics[i].article_index = i - 1
        /\ article_topics[i].primary_topic = Fit(PreprocessTexts(texts)).topics[i]

EmbeddingsAligned(embeddings, texts) ==
    /\ Len(embeddings) = Len(texts)
    /\ \A i \in 1..Len(texts) :
        /\ embeddings[i].article_index = i - 1
        /\ embeddings[i].embedding = Encode(PreprocessText(texts[i]))
        /\ embeddings[i].text_length = Len(PreprocessText(texts[i]))

SentimentsAligned(sentiments, texts) ==
    /\ Len(sentiments) = Len(texts)
    /\ \A i \in 1..Len(texts) :
        LET r == AnalyzeCzechSentiment(PreprocessText(texts[i]))
        IN  /\ sentiments[i].article_index = i - 1
            /\ sentiments[i].sentiment = r.sentiment
            /\ sentiments[i].confidence = r.confidence
            /\ sentiments[i].polarity = r.polarity
            /\ sentiments[i].subjectivity = r.subjectivity

\* C5: every per-document list of a successful answer has one entry per
\* input article, the entry at position i has article_index i (from 0) and
\* is computed from the text of the i-th article.
PositionalAlignment ==
    LET arts == answered.req.articles
    IN  Ok =>
        /\ Answered("topics") => TopicsAligned(Body.article_topics, TopicsTexts(arts))
        /\ Answered("semantic") =>
            /\ EmbeddingsAligned(Body.embeddings, SemanticTexts(arts))
            /\ Truthy(answered.req.query) =>
                /\ Len(Body.similarities) = Len(arts)
                /\ \A i \in 1..Len(arts) :
                    Body.similarities[i] =
                        Cosine(Encode(answered.req.query),
                               Encode(PreprocessText(SemanticTexts(arts)[i])))
        /\ Answered("sentiment") => SentimentsAligned(Body.sentiments, SentimentTexts(arts))
        /\ Answered("batch") =>
            /\ TopicsAligned(Body.article_topics, BatchTexts(arts))
            /\ EmbeddingsAligned(Body.embeddings, BatchTexts(arts))
            /\ SentimentsAligned(Body.sentiments, BatchTexts(arts))

\* C5 witness: a batch over two different articles is answered
BatchOfTwoAnswered ==
    /\ Answered("batch") /\ Ok
    /\ Len(answered.req.articles) = 2
    /\ answered.req.articles[1] # answered.req.articles[2]

\* C6 as stated: in a batch the semantic analysis is given texts without
\* the content, the topic and sentiment analyses texts with the content
BatchOwnTextLists ==
    \A s \in Slots : sub[s] # <<>> =>
        /\ sub[s][1].texts = TopicsTexts(reqs[s].articles)
        /\ sub[s][2].texts = SemanticTexts(reqs[s].articles)
        /\ sub[s][3].texts = SentimentTexts(reqs[s].articles)

\* C6 amended: in a batch the three analyses are given one and the same
\* text list, built from title, description and content, so the embeddings
\* of a batch are those of the texts with content; only the /semantic
\* endpoint builds its texts from title and description alone.
BatchSharedTextList ==
    /\ \A s \in Slots : sub[s] # <<>> =>
        \A i \in 1..3 :
            sub[s][i].texts = [j \in 1..Len(reqs[s].articles) |->
                                   TextWithContent(reqs[s].articles[j])]
    /\ (Answered("batch") /\ Ok) =>
        \A j \in 1..Len(answered.req.articles) :
            Body.embeddings[j].text_length =
                Len(PreprocessText(TextWithContent(answered.req.articles[j])))
    /\ (Answered("semantic") /\ Ok) =>
        \A j \in 1..Len(answered.req.articles) :
            Body.embeddings[j].text_length =
                Len(PreprocessText(TextWithoutContent(answered.req.articles[j])))

\* C6 witness: the semantic analysis of a batch has run on an article that
\* has content
BatchSemanticsRanWithContent ==
    \E s \in Slots :
        /\ sub[s] # <<>> /\ sub[s][2].state = "done"
        /\ \E j \in 1..Len(reqs[s].articles) : Truthy(reqs[s].articles[j].content)

\* The sentiments of a successful /sentiment or batch answer
AnsweredSentiments == (Answered("sentiment") \/ Answered("batch")) /\ Ok

\* polarity and subjectivity as the scorer computes them from the counts
\* found in `scored` and the number of words of `counted`
ScoredOver(r, scored, counted) ==
    LET p == CountIn(positive_words, Lower(scored))
        n == CountIn(negative_words, Lower(scored))
        t == Len(Split(counted))
    IN  IF t = 0 THEN r.polarity[1] = 0 /\ r.subjectivity[1] = 0
        ELSE /\ FEq(r.polarity, Frac(p - n, t))
             /\ FEq(r.subjectivity, FMin(Frac(1, 1), Frac(p + n, t)))

\* C8 as stated: the denominator of polarity and subjectivity is the
\* number of whitespace-separated words of the original text of the article
DenominatorFromOriginal ==
    AnsweredSentiments =>
        \A i \in 1..Len(answered.req.articles) :
            LET original == TextWithContent(answered.req.articles[i])
            IN  ScoredOver(Body.sentiments[i], PreprocessText(original), original)

\* C8 amended: the denominator is the number of whitespace-separated words
\* of the text handed to the scorer, which in the sentiment pipeline is the
\* preprocessed (stop-word-filtered, lemmatized, lower-cased) text.
DenominatorFromPreprocessed ==
    AnsweredSentiments =>
        \A i \in 1..Len(answered.req.articles) :
            LET original == TextWithContent(answered.req.articles[i])
            IN  ScoredOver(Body.sentiments[i], PreprocessText(original),
                           PreprocessText(original))

\* C8 witness: a /sentiment answer for an article whose preprocessed text
\* has fewer words than its original text
SentimentOfFilteredText ==
    /\ Answered("sentiment") /\ Ok
    /\ \E i \in 1..Len(answered.req.articles) :
        LET original == TextWithContent(answered.req.articles[i])
        IN  Len(Split(PreprocessText(original))) < Len(Split(original))

\* C9: a topic analysis returns at most num_topics topics, each with words
\* and weights of one length of at most 10, and per document at most
\* num_topics probabilities and a confidence not below any of them.
TopicOutputBounds ==
    (Answered("topics") /\ Ok) =>
        /\ Len(Body.topics) <= answered.req.num_topics
        /\ \A t \in 1..Len(Body.topics) :
            /\ Len(Body.topics[t].words) = Len(Body.topics[t].weights)
            /\ Len(Body.topics[t].words) <= TopWords
        /\ \A i \in 1..Len(Body.article_topics) :
            /\ Len(Body.article_topics[i].topic_probabilities) <= answered.req.num_topics
            /\ \A j \in 1..Len(Body.article_topics[i].topic_probabilities) :
                Body.article_topics[i].topic_probabilities[j]
                    <= Body.article_topics[i].confidence

\* C7: the scoring rule.  With p and n the numbers of positive and
\* negative lexicon entries found in the lower-cased text and t its number
\* of words: no words give neutral, 0.5, 0, 0; else polarity is (p-n)/t,
\* the label is positive above 0.01, negative below -0.01, else neutral
\* with confidence 0.5 (so whenever p = n), a non-neutral confidence is
\* min(0.9, 10 |polarity|), subjectivity is min(1, (p+n)/t); confidence
\* never exceeds 0.9 and subjectivity lies in [0, 1].
SentimentRule ==
    sent_out # NoResult =>
        LET p == CountIn(positive_words, Lower(sent_in))
            n == CountIn(negative_words, Lower(sent_in))
            t == Len(Split(sent_in))
            d == IF p < n THEN n - p ELSE p - n
            r == sent_out
        IN  /\ IF t = 0
               THEN /\ r.sentiment = "neutral"
                    /\ FEq(r.confidence, Frac(1, 2))
                    /\ r.polarity[1] = 0
                    /\ r.subjectivity[1] = 0
               ELSE /\ r.polarity[1] * t = (p - n) * r.polarity[2]
                    /\ r.sentiment = (IF 100 * (p - n) > t THEN "positive"
                                      ELSE IF 100 * (p - n) < 0 - t THEN "negative"
                                      ELSE "neutral")
                    /\ r.sentiment = "neutral" => FEq(r.confidence, Frac(1, 2))
                    /\ p = n => r.sentiment = "neutral"
                    /\ r.sentiment # "neutral" =>
                        IF 100 * d >= 9 * t THEN FEq(r.confidence, Frac(9, 10))
                        ELSE r.confidence[1] * t = 10 * d * r.confidence[2]
                    /\ IF p + n >= t THEN FEq(r.subjectivity, Frac(1, 1))
                       ELSE r.subjectivity[1] * t = (p + n) * r.subjectivity[2]
            /\ r.polarity[2] > 0 /\ r.confidence[2] > 0 /\ r.subjectivity[2] > 0
            /\ FLeq(r.confidence, Frac(9, 10))
            /\ FLeq(Frac(0, 1), r.subjectivity) /\ FLeq(r.subjectivity, Frac(1, 1))

\* C7 witness: a text with one more positive than negative entry among
\* exactly 100 words is scored neutral (polarity 0.01 is not above 0.01)
NeutralAtThreshold ==
    /\ sent_out # NoResult
    /\ sent_out.sentiment = "neutral"
    /\ sent_out.polarity[1] = 1 /\ sent_out.polarity[2] = 100

====
